---------------------------- MODULE Spec2Model ----------------------------
(***************************************************************************)
(* Model of the text analysis pipeline of text_analyzer/services.py and    *)
(* of the request handler of text_analyzer/main.py.                        *)
(*                                                                         *)
(* Python strings are sequences of one-character strings, so that lower(), *)
(* split(), strip(), slicing and the substring test are computed, not      *)
(* assumed.                                                                *)
(***************************************************************************)
EXTENDS Integers, Sequences, FiniteSets, TLC

----------------------------------------------------------------------------
(* Bounds of the model *)

\* Number of analyze requests, numbered in arrival order.
NumCalls == 2

\* Length, in words, of the generated texts the pure functions are applied to.
MaxWords == 3

\* A set of at most this many strings is listed in every order; a larger one
\* in its insertion order and in the reverse of it.
PermLimit == 3

\* random.choice, in the service's calls, draws among this many of the themes.
DrawnThemes == 2

----------------------------------------------------------------------------
(* Python values *)

\* Python's None, distinct from every string (a string's elements are
\* single characters).
None == << "None" >>

Min(a, b) == IF a <= b THEN a ELSE b

UpperChars ==
    << "A", "B", "C", "D", "E", "F", "G", "H", "I", "J", "K", "L", "M",
       "N", "O", "P", "Q", "R", "S", "T", "U", "V", "W", "X", "Y", "Z" >>

LowerChars ==
    << "a", "b", "c", "d", "e", "f", "g", "h", "i", "j", "k", "l", "m",
       "n", "o", "p", "q", "r", "s", "t", "u", "v", "w", "x", "y", "z" >>

\* The characters str.split() and str.strip() treat as whitespace (those
\* that occur in the modelled texts).
Whitespace == { " ", "\t", "\n" }

\* str.lower()
lower(s) ==
    [ i \in 1..Len(s) |->
        IF \E k \in 1..26 : UpperChars[k] = s[i]
        THEN LowerChars[CHOOSE k \in 1..26 : UpperChars[k] = s[i]]
        ELSE s[i] ]

\* s[:n]
Prefix(s, n) == SubSeq(s, 1, Min(n, Len(s)))

\* w in s, for strings
Contains(s, w) ==
    \E i \in 1..(Len(s) - Len(w) + 1) : SubSeq(s, i, i + Len(w) - 1) = w

RECURSIVE FirstKept(_, _)
\* the index of the first non-whitespace character at or after i, or Len(s) + 1
FirstKept(s, i) ==
    IF i > Len(s) \/ s[i] \notin Whitespace THEN i ELSE FirstKept(s, i + 1)

RECURSIVE LastKept(_, _)
\* the index of the last non-whitespace character at or before i, or 0
LastKept(s, i) ==
    IF i < 1 \/ s[i] \notin Whitespace THEN i ELSE LastKept(s, i - 1)

\* str.strip()
strip(s) == SubSeq(s, FirstKept(s, 1), LastKept(s, Len(s)))

RECURSIVE SplitWs(_, _, _, _)
\* str.split(): the maximal runs of non-whitespace characters, in order.
SplitWs(s, i, cur, acc) ==
    IF i > Len(s)
    THEN IF cur = << >> THEN acc ELSE Append(acc, cur)
    ELSE IF s[i] \in Whitespace
         THEN SplitWs(s, i + 1, << >>,
                      IF cur = << >> THEN acc ELSE Append(acc, cur))
         ELSE SplitWs(s, i + 1, Append(cur, s[i]), acc)

split(s) == SplitWs(s, 1, << >>, << >>)

RECURSIVE SplitAt(_, _, _, _, _)
\* str.split(ch): the segments between occurrences of ch, empty ones kept.
SplitAt(s, ch, i, cur, acc) ==
    IF i > Len(s)
    THEN Append(acc, cur)
    ELSE IF s[i] = ch
         THEN SplitAt(s, ch, i + 1, << >>, Append(acc, cur))
         ELSE SplitAt(s, ch, i + 1, Append(cur, s[i]), acc)

splitOn(s, ch) == SplitAt(s, ch, 1, << >>, << >>)

RECURSIVE join(_, _)
\* ch.join(segs)
join(segs, ch) ==
    IF Len(segs) = 0 THEN << >>
    ELSE IF Len(segs) = 1 THEN segs[1]
    ELSE segs[1] \o << ch >> \o join(Tail(segs), ch)

----------------------------------------------------------------------------
(* Program constants *)

\* text longer than this is rejected by the request handler
MaxTextLength == 10000

\* the keyword list is cut to this many entries
MaxKeywords == 10

\* a fallback keyword is longer than this
MinKeywordLen == 3

\* the deterministic moral needs at least this many characters of text
MinMoralLen == 20

\* the tone fallback shortens text longer than this
ShortenThreshold == 200

\* characters kept by the hard truncation
TruncateLen == 197

\* sentence segments kept by the shortening
KeptSentences == 2

\* 0.8 and 0.5, the fallback classifier's scores, in hundredths
FallbackConfidence == 80

NeutralConfidence == 50

----------------------------------------------------------------------------
(* _extract_keywords: the fallback extractor *)

common_words ==
    { <<"t", "h", "e">>,
      <<"a">>,
      <<"a", "n">>,
      <<"a", "n", "d">>,
      <<"o", "r">>,
      <<"b", "u", "t">>,
      <<"i", "n">>,
      <<"o", "n">>,
      <<"a", "t">>,
      <<"t", "o">>,
      <<"f", "o", "r">>,
      <<"o", "f">>,
      <<"w", "i", "t", "h">>,
      <<"b", "y">>,
      <<"i", "s">>,
      <<"a", "r", "e">>,
      <<"w", "a", "s">>,
      <<"w", "e", "r", "e">> }
KeywordPlaceholder ==
    << <<"i", "m", "p", "o", "r", "t", "a", "n", "t">>,
       <<"k", "e", "y">>,
       <<"c", "o", "n", "c", "e", "p", "t", "s">> >>
RakePlaceholder ==
    << <<"m", "e", "a", "n", "i", "n", "g", "f", "u", "l">>,
       <<"c", "o", "n", "t", "e", "n", "t">>,
       <<"a", "n", "a", "l", "y", "s", "i", "s">> >>

\* [word for word in words if word not in common_words and len(word) > 3]
FallbackCandidates(text) ==
    SelectSeq(split(lower(text)),
              LAMBDA w : w \notin common_words /\ Len(w) > MinKeywordLen)

Range(s) == { s[i] : i \in 1..Len(s) }

Reverse(s) == [ i \in 1..Len(s) |-> s[Len(s) + 1 - i] ]

\* The distinct elements of ws, each at the place of its first occurrence.
FirstSeen(ws) ==
    LET first == { i \in 1..Len(ws) : \A j \in 1..(i - 1) : ws[j] # ws[i] }
        F[i \in 0..Len(ws)] ==
            IF i = 0 THEN << >>
            ELSE IF i \in first THEN Append(F[i - 1], ws[i]) ELSE F[i - 1]
    IN  F[Len(ws)]

\* list(set(ws)): the orders in which the interpreter may list the set built
\* from ws. The order follows the strings' hashes, which are seeded per
\* process, so it is any order of the distinct elements.
SetOrders(ws) ==
    LET d == FirstSeen(ws)
        n == Len(d)
    IN  IF n = 0 THEN { << >> }
        ELSE IF n <= PermLimit
             THEN { p \in [1..n -> Range(d)] :
                      \A i, j \in 1..n : i # j => p[i] # p[j] }
             ELSE { d, Reverse(d) }

\* list(set(keywords))[:10] or ["important", "key", "concepts"], the set
\* listed as `listed`
FallbackKeywords(listed) ==
    IF Prefix(listed, MaxKeywords) = << >> THEN KeywordPlaceholder
    ELSE Prefix(listed, MaxKeywords)

----------------------------------------------------------------------------
(* _simple_sentiment_analysis and _map_sentiment_to_tone *)

positive_words ==
    { <<"g", "o", "o", "d">>,
      <<"g", "r", "e", "a", "t">>,
      <<"e", "x", "c", "e", "l", "l", "e", "n", "t">>,
      <<"a", "m", "a", "z", "i", "n", "g">>,
      <<"w", "o", "n", "d", "e", "r", "f", "u", "l">>,
      <<"h", "a", "p", "p", "y">>,
      <<"l", "o", "v", "e">>,
      <<"n", "i", "c", "e">>,
      <<"b", "e", "a", "u", "t", "i", "f", "u", "l">>,
      <<"p", "e", "r", "f", "e", "c", "t">>,
      <<"f", "a", "n", "t", "a", "s", "t", "i", "c">> }
negative_words ==
    { <<"b", "a", "d">>,
      <<"t", "e", "r", "r", "i", "b", "l", "e">>,
      <<"a", "w", "f", "u", "l">>,
      <<"h", "o", "r", "r", "i", "b", "l", "e">>,
      <<"s", "a", "d">>,
      <<"h", "a", "t", "e">>,
      <<"a", "n", "g", "r", "y">>,
      <<"w", "o", "r", "s", "t">>,
      <<"d", "i", "s", "a", "p", "p", "o", "i", "n", "t", "i", "n", "g">>,
      <<"u", "g", "l", "y">> }
L_positive == <<"p", "o", "s", "i", "t", "i", "v", "e">>
L_negative == <<"n", "e", "g", "a", "t", "i", "v", "e">>
L_neutral == <<"n", "e", "u", "t", "r", "a", "l">>
L_POSITIVE == <<"P", "O", "S", "I", "T", "I", "V", "E">>
L_NEGATIVE == <<"N", "E", "G", "A", "T", "I", "V", "E">>
L_LABEL_1 == <<"L", "A", "B", "E", "L", "_", "1">>
L_LABEL_0 == <<"L", "A", "B", "E", "L", "_", "0">>

\* Mutant: a tie counts as positive (>= for >).
simple_sentiment_analysis_ties(text) ==
    LET text_lower == lower(text)
        positive_count ==
            Cardinality({ word \in positive_words : Contains(text_lower, word) })
        negative_count ==
            Cardinality({ word \in negative_words : Contains(text_lower, word) })
    IN  IF positive_count >= negative_count
        THEN [ label |-> L_positive, score |-> FallbackConfidence ]
        ELSE [ label |-> L_negative, score |-> FallbackConfidence ]

simple_sentiment_analysis(text) ==
    LET text_lower == lower(text)
        positive_count ==
            Cardinality({ word \in positive_words : Contains(text_lower, word) })
        negative_count ==
            Cardinality({ word \in negative_words : Contains(text_lower, word) })
    IN  IF positive_count > negative_count
        THEN [ label |-> L_positive, score |-> FallbackConfidence ]
        ELSE IF negative_count > positive_count
             THEN [ label |-> L_negative, score |-> FallbackConfidence ]
             ELSE [ label |-> L_neutral, score |-> NeutralConfidence ]

map_sentiment_to_tone(sentiment_label) ==
    IF Contains(sentiment_label, L_POSITIVE) \/ Contains(sentiment_label, L_LABEL_1)
    THEN L_positive
    ELSE IF Contains(sentiment_label, L_NEGATIVE)
              \/ Contains(sentiment_label, L_LABEL_0)
         THEN L_negative
         ELSE L_neutral

----------------------------------------------------------------------------
(* _demo_moral_extraction *)

TooShortMoral == <<"T", "h", "e", " ", "t", "e", "x", "t", " ", "i", "s", " ", "t", "o", "o", " ", "s", "h", "o", "r", "t", " ", "t", "o", " ", "e", "x", "t", "r", "a", "c", "t", " ", "a", " ", "m", "e", "a", "n", "i", "n", "g", "f", "u", "l", " ", "l", "e", "s", "s", "o", "n", ".">>
MoralLead == <<"T", "h", "i", "s", " ", "s", "t", "o", "r", "y", " ", "t", "e", "a", "c", "h", "e", "s", " ", "u", "s", " ", "a", "b", "o", "u", "t", " ">>
themes ==
    << <<"t", "h", "e", " ", "i", "m", "p", "o", "r", "t", "a", "n", "c", "e", " ", "o", "f", " ", "p", "e", "r", "s", "e", "v", "e", "r", "a", "n", "c", "e", " ", "a", "n", "d", " ", "d", "e", "t", "e", "r", "m", "i", "n", "a", "t", "i", "o", "n", " ", "i", "n", " ", "o", "v", "e", "r", "c", "o", "m", "i", "n", "g", " ", "c", "h", "a", "l", "l", "e", "n", "g", "e", "s">>,
       <<"t", "h", "e", " ", "v", "a", "l", "u", "e", " ", "o", "f", " ", "f", "r", "i", "e", "n", "d", "s", "h", "i", "p", ",", " ", "t", "e", "a", "m", "w", "o", "r", "k", ",", " ", "a", "n", "d", " ", "s", "u", "p", "p", "o", "r", "t", "i", "n", "g", " ", "o", "n", "e", " ", "a", "n", "o", "t", "h", "e", "r">>,
       <<"l", "e", "a", "r", "n", "i", "n", "g", " ", "f", "r", "o", "m", " ", "m", "i", "s", "t", "a", "k", "e", "s", " ", "a", "n", "d", " ", "u", "s", "i", "n", "g", " ", "e", "x", "p", "e", "r", "i", "e", "n", "c", "e", "s", " ", "f", "o", "r", " ", "p", "e", "r", "s", "o", "n", "a", "l", " ", "g", "r", "o", "w", "t", "h">>,
       <<"t", "h", "e", " ", "p", "o", "w", "e", "r", " ", "o", "f", " ", "k", "i", "n", "d", "n", "e", "s", "s", ",", " ", "e", "m", "p", "a", "t", "h", "y", ",", " ", "a", "n", "d", " ", "u", "n", "d", "e", "r", "s", "t", "a", "n", "d", "i", "n", "g", " ", "o", "t", "h", "e", "r", "s">>,
       <<"t", "h", "e", " ", "s", "i", "g", "n", "i", "f", "i", "c", "a", "n", "c", "e", " ", "o", "f", " ", "h", "o", "n", "e", "s", "t", "y", ",", " ", "i", "n", "t", "e", "g", "r", "i", "t", "y", ",", " ", "a", "n", "d", " ", "d", "o", "i", "n", "g", " ", "w", "h", "a", "t", "'", "s", " ", "r", "i", "g", "h", "t">>,
       <<"a", "p", "p", "r", "e", "c", "i", "a", "t", "i", "n", "g", " ", "t", "h", "e", " ", "s", "i", "m", "p", "l", "e", " ", "t", "h", "i", "n", "g", "s", " ", "i", "n", " ", "l", "i", "f", "e", " ", "a", "n", "d", " ", "f", "i", "n", "d", "i", "n", "g", " ", "c", "o", "n", "t", "e", "n", "t", "m", "e", "n", "t">>,
       <<"t", "h", "e", " ", "c", "o", "u", "r", "a", "g", "e", " ", "t", "o", " ", "f", "a", "c", "e", " ", "f", "e", "a", "r", "s", " ", "a", "n", "d", " ", "s", "t", "e", "p", " ", "o", "u", "t", "s", "i", "d", "e", " ", "c", "o", "m", "f", "o", "r", "t", " ", "z", "o", "n", "e", "s">>,
       <<"t", "h", "e", " ", "w", "i", "s", "d", "o", "m", " ", "i", "n", " ", "b", "e", "i", "n", "g", " ", "p", "a", "t", "i", "e", "n", "t", " ", "a", "n", "d", " ", "t", "h", "i", "n", "k", "i", "n", "g", " ", "b", "e", "f", "o", "r", "e", " ", "a", "c", "t", "i", "n", "g">> >>

\* theme is the index random.choice draws
demo_moral_extraction(text, theme) ==
    IF Len(text) < MinMoralLen THEN TooShortMoral
    ELSE MoralLead \o themes[theme] \o << "." >>

----------------------------------------------------------------------------
(* _demo_tone_transformation *)

T_formal == <<"f", "o", "r", "m", "a", "l">>
T_informal == <<"i", "n", "f", "o", "r", "m", "a", "l">>
T_friendly == <<"f", "r", "i", "e", "n", "d", "l", "y">>
T_professional == <<"p", "r", "o", "f", "e", "s", "s", "i", "o", "n", "a", "l">>
T_casual == <<"c", "a", "s", "u", "a", "l">>
T_complaint == <<"c", "o", "m", "p", "l", "a", "i", "n", "t">>
T_persuasive == <<"p", "e", "r", "s", "u", "a", "s", "i", "v", "e">>
T_academic == <<"a", "c", "a", "d", "e", "m", "i", "c">>
P_formal == <<"[", "F", "o", "r", "m", "a", "l", " ", "V", "e", "r", "s", "i", "o", "n", "]", " ">>
P_informal == <<"[", "C", "a", "s", "u", "a", "l", " ", "V", "e", "r", "s", "i", "o", "n", "]", " ">>
P_friendly == <<"[", "F", "r", "i", "e", "n", "d", "l", "y", " ", "V", "e", "r", "s", "i", "o", "n", "]", " ">>
P_professional == <<"[", "P", "r", "o", "f", "e", "s", "s", "i", "o", "n", "a", "l", " ", "V", "e", "r", "s", "i", "o", "n", "]", " ">>
P_casual == <<"[", "R", "e", "l", "a", "x", "e", "d", " ", "V", "e", "r", "s", "i", "o", "n", "]", " ">>
P_complaint == <<"[", "F", "o", "r", "m", "a", "l", " ", "C", "o", "m", "p", "l", "a", "i", "n", "t", "]", " ">>
P_persuasive == <<"[", "P", "e", "r", "s", "u", "a", "s", "i", "v", "e", " ", "V", "e", "r", "s", "i", "o", "n", "]", " ">>
P_academic == <<"[", "A", "c", "a", "d", "e", "m", "i", "c", " ", "V", "e", "r", "s", "i", "o", "n", "]", " ">>
P_default == <<"[", "R", "e", "w", "r", "i", "t", "t", "e", "n", "]", " ">>

\* the values of models.ToneType
ToneType ==
    { T_formal, T_informal, T_friendly, T_professional, T_casual,
      T_complaint, T_persuasive, T_academic }

\* Mutant: prefixes.get(target_tone, "") - no tag for an unrecognized tone.
prefixes_no_default(target_tone) ==
    CASE target_tone = T_formal -> P_formal
      [] target_tone = T_informal -> P_informal
      [] target_tone = T_friendly -> P_friendly
      [] target_tone = T_professional -> P_professional
      [] target_tone = T_casual -> P_casual
      [] target_tone = T_complaint -> P_complaint
      [] target_tone = T_persuasive -> P_persuasive
      [] target_tone = T_academic -> P_academic
      [] OTHER -> << >>

\* prefixes.get(target_tone, "[Rewritten] ")
prefixes(target_tone) ==
    CASE target_tone = T_formal -> P_formal
      [] target_tone = T_informal -> P_informal
      [] target_tone = T_friendly -> P_friendly
      [] target_tone = T_professional -> P_professional
      [] target_tone = T_casual -> P_casual
      [] target_tone = T_complaint -> P_complaint
      [] target_tone = T_persuasive -> P_persuasive
      [] target_tone = T_academic -> P_academic
      [] OTHER -> P_default

shorten(text) ==
    IF Len(text) > ShortenThreshold
    THEN LET sentences == splitOn(text, ".")
         IN  IF Len(sentences) > 1
             THEN join(Prefix(sentences, KeptSentences), ".") \o << "." >>
             ELSE Prefix(text, TruncateLen) \o << ".", ".", "." >>
    ELSE text

demo_tone_transformation(text, target_tone) ==
    prefixes(target_tone) \o shorten(text)

----------------------------------------------------------------------------
(* Texts *)

ExampleText == <<"I", " ", "l", "o", "v", "e", " ", "t", "h", "i", "s", " ", "w", "o", "n", "d", "e", "r", "f", "u", "l", " ", "s", "u", "n", "n", "y", " ", "d", "a", "y", "!">>
ShortText == <<"S", "a", "d", " ", "d", "a", "y", ".">>
BlankText == <<" ", " ">>
SpacedText == <<" ", " ", "G", "o", "o", "d", "\t", "d", "a", "y", " ", "\n">>
UnknownTone == <<"s", "a", "r", "c", "a", "s", "t", "i", "c">>

\* 11 distinct keywords: aaaa bbbb ... kkkk
ManyKeywordsText ==
    join([ k \in 1..(MaxKeywords + 1) |-> [ i \in 1..4 |-> LowerChars[k] ] ], " ")

\* 210 characters in sentences of 30: longer than the threshold, several '.'
LongSentencesText ==
    [ i \in 1..(ShortenThreshold + 10) |->
        IF i % 30 = 0 THEN "." ELSE IF i % 6 = 0 THEN " " ELSE "a" ]

\* 201 characters without a '.'
LongPlainText ==
    [ i \in 1..(ShortenThreshold + 1) |-> IF i % 6 = 0 THEN " " ELSE "b" ]

\* exactly 200 characters: not shortened
ThresholdText ==
    [ i \in 1..ShortenThreshold |-> IF i % 50 = 0 THEN "." ELSE "c" ]

\* one character more than the handler accepts
OverlongText == [ i \in 1..(MaxTextLength + 1) |-> "x" ]

\* words the generated texts are made of: lexicon words in both cases, a
\* word containing a lexicon word, stop-words short and long
Vocabulary ==
    { <<"l", "o", "v", "e">>,
      <<"H", "A", "T", "E">>,
      <<"g", "l", "o", "v", "e", "s">>,
      <<"t", "h", "e">>,
      <<"s", "a", "d">>,
      <<"w", "i", "t", "h">> }

\* the texts of up to MaxWords words
WordTexts ==
    { join(ws, " ") : ws \in UNION { [1..n -> Vocabulary] : n \in 0..MaxWords } }

FnTexts ==
    WordTexts \cup
    { ExampleText, ShortText, BlankText, SpacedText, ManyKeywordsText,
      LongSentencesText, LongPlainText, ThresholdText }

\* the texts and target tones requests carry
RequestTexts == { ExampleText, ShortText, BlankText, OverlongText }

RequestTones == { None, T_formal }

\* the texts the request handler lets through
ValidTexts ==
    { t \in RequestTexts : strip(t) # << >> /\ Len(t) <= MaxTextLength }

----------------------------------------------------------------------------
(* The external capabilities and what they may answer *)

\* The phrases rake_nltk ranks from a text. The library is not part of the
\* repository: its ranking is a fixed function of the text that tells texts
\* apart and finds nothing in a text without words.
RakeRanked(of) ==
    IF of = None \/ split(of) = << >> THEN << >>
    ELSE << << "r", "a", "k", "e", ":" >> \o lower(of) >>

\* the ranking of each request text, computed once
RakeRankedOf == [ t \in ValidTexts \cup { None } |-> RakeRanked(t) ]

\* Mutant: the extraction leaves the extractor as it was, so that the ranked
\* phrases read next are those of the text extracted before.
extract_keywords_from_text_stale(handle, text) == handle

\* Rake(): the extractor holds the text it last extracted from
extract_keywords_from_text(handle, text) ==
    [ present |-> handle.present, of |-> text ]

get_ranked_phrases(handle) == RakeRankedOf[handle.of]

\* What sentiment_analyzer(text[:512])[0] may be: an exception, or a label
\* of the classifier with its score (in hundredths).
SentimentFailure == [ ok |-> FALSE, label |-> None, score |-> 0 ]

SentimentScores == { 99 }

SentimentReplies ==
    { [ ok |-> TRUE, label |-> l, score |-> s ] :
        l \in { L_POSITIVE, L_NEGATIVE }, s \in SentimentScores }

GenReply == <<" ", "A", " ", "l", "e", "s", "s", "o", "n", ".", " ">>
BlankReply == <<" ">>

\* What chat.completions.create may do: raise, answer without content, or
\* answer with a text, which may be blank.
GenerationFailure == [ ok |-> FALSE, content |-> None ]

GenerationReplies ==
    { [ ok |-> TRUE, content |-> t ] : t \in { None, GenReply, BlankReply } }

----------------------------------------------------------------------------
(* State *)

VARIABLES
    demo_mode,        \* self.demo_mode
    rake,             \* self.rake
    transformers_ok,  \* whether the transformers package can be imported
    setOrder,         \* the orders in which this process has listed sets
    calls,            \* the requests, by arrival number
    fnText, fnOp, fnArg, fnOut   \* a pure function applied to a text

vars ==
    << demo_mode, rake, transformers_ok, setOrder, calls,
       fnText, fnOp, fnArg, fnOut >>

serviceVars == << demo_mode, rake, transformers_ok, setOrder, calls >>

fnVars == << fnText, fnOp, fnArg, fnOut >>

Calls == 1..NumCalls

\* a request that has not arrived
IdleCall ==
    [ pc |-> "idle", text |-> None, target_tone |-> None, keywords |-> << >>,
      original_tone |-> None, confidence |-> 0, moral |-> None,
      transformed_text |-> None, invoked |-> {}, fallbacks |-> {},
      stalled |-> FALSE ]

\* the themes random.choice may draw: none is drawn for a short text
AllThemes(text) ==
    IF Len(text) < MinMoralLen THEN { 1 } ELSE 1..Len(themes)

ThemeChoices(text) ==
    { theme \in AllThemes(text) : theme <= DrawnThemes }

\* What the deterministic functions give on the texts of the requests; each
\* is computed once.
FallbackCandidatesOf == [ t \in ValidTexts |-> FallbackCandidates(t) ]

FallbackSentiment == [ t \in ValidTexts |-> simple_sentiment_analysis(t) ]

FallbackMoral ==
    [ t \in ValidTexts |->
        [ theme \in AllThemes(t) |-> demo_moral_extraction(t, theme) ] ]

FallbackTone ==
    [ t \in ValidTexts |->
        [ tone \in RequestTones \ { None } |-> demo_tone_transformation(t, tone) ] ]

----------------------------------------------------------------------------
(* TextAnalysisService.__init__ *)

\* api_key: os.getenv('OPENAI_API_KEY'); openai_importable: import openai
init_demo_mode(api_key, openai_importable) ==
    IF api_key = "" \/ api_key = "your_openai_api_key_here" THEN TRUE
    ELSE ~openai_importable

\* rake_importable: import nltk, rake_nltk
init_rake(rake_importable) == [ present |-> rake_importable, of |-> None ]

ApiKeys == { "", "your_openai_api_key_here", "sk-key" }

----------------------------------------------------------------------------
(* The stages of analyze_text. Each returns the stage's value, the path it  *)
(* took, and whether an exception left the stage.                           *)

\* _extract_keywords. rake_raises: the extractor raises; listed: the order
\* in which list(set(keywords)) lists the fallback's candidates.
extract_keywords(self_rake, text, rake_raises, listed) ==
    IF self_rake.present /\ ~rake_raises
    THEN LET handle == extract_keywords_from_text(self_rake, text)
             keywords == Prefix(get_ranked_phrases(handle), MaxKeywords)
         IN  [ raised |-> FALSE, path |-> "capability", rake |-> handle,
               value |-> IF keywords # << >> THEN keywords ELSE RakePlaceholder ]
    ELSE [ raised |-> FALSE, path |-> "fallback", rake |-> self_rake,
           value |-> FallbackKeywords(listed) ]

\* _analyze_sentiment. reply: what the transformers pipeline does.
analyze_sentiment(text, reply) ==
    IF reply.ok
    THEN [ raised |-> FALSE, path |-> "capability",
           value |-> [ label |-> map_sentiment_to_tone(reply.label),
                       score |-> reply.score ] ]
    ELSE [ raised |-> FALSE, path |-> "fallback",
           value |-> FallbackSentiment[text] ]

\* Mutant: the demo mode flag is not consulted; the capability is called.
extract_moral_ungated(self_demo_mode, text, theme) ==
    [ awaits |-> TRUE, raised |-> FALSE, path |-> "capability", value |-> None ]

\* _extract_moral up to its await: the deterministic moral in demo mode, else
\* the call to the generation capability is issued.
extract_moral(self_demo_mode, text, theme) ==
    IF self_demo_mode
    THEN [ awaits |-> FALSE, raised |-> FALSE, path |-> "fallback",
           value |-> FallbackMoral[text][theme] ]
    ELSE [ awaits |-> TRUE, raised |-> FALSE, path |-> "capability",
           value |-> None ]

\* _transform_tone up to its await
transform_tone(self_demo_mode, text, target_tone) ==
    IF self_demo_mode
    THEN [ awaits |-> FALSE, raised |-> FALSE, path |-> "fallback",
           value |-> FallbackTone[text][target_tone] ]
    ELSE [ awaits |-> TRUE, raised |-> FALSE, path |-> "capability",
           value |-> None ]

\* the capability answered with a text
Answered(response) == response.ok /\ response.content # None

\* Mutant: no except branch; the capability's failure leaves the stage.
moral_from_response_unhandled(text, response, theme) ==
    IF Answered(response)
    THEN [ raised |-> FALSE, path |-> "capability",
           value |-> strip(response.content) ]
    ELSE [ raised |-> TRUE, path |-> "capability", value |-> None ]

\* _extract_moral after the awaited call: response.choices[0].message
\* .content.strip(), or the except branch.
moral_from_response(text, response, theme) ==
    IF Answered(response)
    THEN [ raised |-> FALSE, path |-> "capability",
           value |-> strip(response.content) ]
    ELSE [ raised |-> FALSE, path |-> "fallback",
           value |-> FallbackMoral[text][theme] ]

\* _transform_tone after the awaited call
tone_from_response(text, target_tone, response) ==
    IF Answered(response)
    THEN [ raised |-> FALSE, path |-> "capability",
           value |-> strip(response.content) ]
    ELSE [ raised |-> FALSE, path |-> "fallback",
           value |-> FallbackTone[text][target_tone] ]

\* The replies the sentiment capability may give in this process.
SentimentOutcomes ==
    IF transformers_ok THEN SentimentReplies \cup { SentimentFailure }
    ELSE { SentimentFailure }

\* Mutant: the order is drawn anew at every listing.
ListingsOf_reseeded(ws) == SetOrders(ws)

\* The order in which this process lists the set built from ws: the one it
\* used before for the same list, else any.
ListingsOf(ws) ==
    IF ws \in DOMAIN setOrder THEN { setOrder[ws] } ELSE SetOrders(ws)

\* list(set(keywords)) is evaluated only where the keyword fallback runs
Listings(text, fallback_runs) ==
    IF fallback_runs THEN ListingsOf(FallbackCandidatesOf[text]) ELSE { << >> }

\* random.choice is called only where the moral fallback runs
ThemesDrawn(text, fallback_runs) ==
    IF fallback_runs THEN ThemeChoices(text) ELSE { 1 }

Remember(ws, listed) ==
    [ k \in DOMAIN setOrder \cup { ws } |->
        IF k = ws THEN listed ELSE setOrder[k] ]

----------------------------------------------------------------------------
(* Actions *)

\* main.analyze_text rejects the request: HTTP 400
Reject(c, text) ==
    /\ strip(text) = << >> \/ Len(text) > MaxTextLength
    /\ calls' = [calls EXCEPT ![c].pc = "rejected"]
    /\ UNCHANGED << demo_mode, rake, transformers_ok, setOrder >>

\* The call after its moral is known (analyze_text, lines 62-74): the result
\* if no tone is asked for, else the tone stage, which in live mode awaits
\* the generation capability.
AfterMoral(call, moral) ==
    LET withMoral ==
            [call EXCEPT !.moral = moral.value,
                         !.fallbacks = IF moral.path = "fallback"
                                       THEN @ \cup { "moral" } ELSE @]
        tone == transform_tone(demo_mode, call.text, call.target_tone)
    IN  IF moral.raised THEN [withMoral EXCEPT !.pc = "error"]
        ELSE IF call.target_tone = None THEN [withMoral EXCEPT !.pc = "done"]
        ELSE IF tone.raised THEN [withMoral EXCEPT !.pc = "error"]
        ELSE IF tone.awaits
             THEN [withMoral EXCEPT !.pc = "await_tone",
                                    !.invoked = @ \cup { "tone" }]
             ELSE [withMoral EXCEPT !.pc = "done",
                                    !.fallbacks = @ \cup { "tone" },
                                    !.transformed_text = tone.value]

\* main.analyze_text accepts the request and text_service.analyze_text runs
\* to its first suspension: the keyword and sentiment stages, then the moral
\* stage, which in live mode awaits the generation capability.
Analyze(c, text, target_tone) ==
    /\ strip(text) # << >>
    /\ Len(text) <= MaxTextLength
    /\ \E rake_raises \in BOOLEAN, reply \in SentimentOutcomes :
       \E theme \in ThemesDrawn(text, demo_mode),
          listed \in Listings(text, ~rake.present \/ rake_raises) :
        LET kw == extract_keywords(rake, text, rake_raises, listed)
            tone_analysis == analyze_sentiment(text, reply)
            moral == extract_moral(demo_mode, text, theme)
            started ==
                [ IdleCall EXCEPT
                    !.text = text,
                    !.target_tone = target_tone,
                    !.keywords = kw.value,
                    !.original_tone = tone_analysis.value.label,
                    !.confidence = tone_analysis.value.score,
                    !.invoked =
                        (IF rake.present THEN { "keywords" } ELSE {})
                        \cup (IF transformers_ok THEN { "sentiment" } ELSE {})
                        \cup (IF moral.awaits THEN { "moral" } ELSE {}),
                    !.fallbacks =
                        (IF kw.path = "fallback" THEN { "keywords" } ELSE {})
                        \cup (IF tone_analysis.path = "fallback"
                              THEN { "sentiment" } ELSE {}) ]
        IN  /\ rake' = kw.rake
            /\ setOrder' = IF kw.path = "fallback"
                           THEN Remember(FallbackCandidatesOf[text], listed)
                           ELSE setOrder
            /\ calls' =
                 [calls EXCEPT ![c] =
                    IF kw.raised \/ tone_analysis.raised \/ moral.raised
                    THEN [started EXCEPT !.pc = "error"]
                    ELSE IF moral.awaits
                         THEN [started EXCEPT !.pc = "await_moral"]
                         ELSE AfterMoral(started, moral)]
    /\ UNCHANGED << demo_mode, transformers_ok >>

\* POST /analyze: the next request arrives
Request(c) ==
    /\ calls[c].pc = "idle"
    /\ \A d \in Calls : d < c => calls[d].pc # "idle"
    /\ \E text \in RequestTexts, target_tone \in RequestTones :
         \/ Reject(c, text)
         \/ Analyze(c, text, target_tone)
    /\ UNCHANGED fnVars

\* Mutant: a failed moral call switches the service to demo mode.
MoralResponse_sticky(c) ==
    /\ calls[c].pc = "await_moral"
    /\ ~calls[c].stalled
    /\ \E response \in GenerationReplies \cup { GenerationFailure } :
       \E theme \in ThemesDrawn(calls[c].text, ~Answered(response)) :
         LET moral == moral_from_response(calls[c].text, response, theme)
         IN  /\ calls' = [calls EXCEPT ![c] = AfterMoral(@, moral)]
             /\ demo_mode' = (demo_mode \/ moral.path = "fallback")
    /\ UNCHANGED << rake, transformers_ok, setOrder, fnVars >>

\* The generation capability answers the moral prompt and the call resumes.
MoralResponse(c) ==
    /\ calls[c].pc = "await_moral"
    /\ ~calls[c].stalled
    /\ \E response \in GenerationReplies \cup { GenerationFailure } :
       \E theme \in ThemesDrawn(calls[c].text, ~Answered(response)) :
         calls' = [calls EXCEPT ![c] =
                     AfterMoral(@, moral_from_response(@.text, response, theme))]
    /\ UNCHANGED << demo_mode, rake, transformers_ok, setOrder, fnVars >>

\* The generation capability answers the tone prompt and the call returns.
ToneResponse(c) ==
    /\ calls[c].pc = "await_tone"
    /\ ~calls[c].stalled
    /\ \E response \in GenerationReplies \cup { GenerationFailure } :
         LET tone == tone_from_response(calls[c].text, calls[c].target_tone,
                                        response)
         IN  calls' = [calls EXCEPT
                         ![c].transformed_text = tone.value,
                         ![c].fallbacks = IF tone.path = "fallback"
                                          THEN @ \cup { "tone" } ELSE @,
                         ![c].pc = IF tone.raised THEN "error" ELSE "done"]
    /\ UNCHANGED << demo_mode, rake, transformers_ok, setOrder, fnVars >>

\* The generation capability never answers the awaited call: the code sets
\* no timeout on it.
Stall(c) ==
    /\ calls[c].pc \in { "await_moral", "await_tone" }
    /\ ~calls[c].stalled
    /\ calls' = [calls EXCEPT ![c].stalled = TRUE]
    /\ UNCHANGED << demo_mode, rake, transformers_ok, setOrder, fnVars >>

Init ==
    /\ \E api_key \in ApiKeys, openai_importable \in BOOLEAN :
         demo_mode = init_demo_mode(api_key, openai_importable)
    /\ \E rake_importable \in BOOLEAN : rake = init_rake(rake_importable)
    /\ transformers_ok \in BOOLEAN
    /\ setOrder = << >>
    /\ calls = [ c \in Calls |-> IdleCall ]
    /\ fnText = << >>
    /\ fnOp = "none"
    /\ fnArg = None
    /\ fnOut = None

Next ==
    \E c \in Calls :
        \/ Request(c)
        \/ MoralResponse(c)
        \/ ToneResponse(c)

Spec == Init /\ [][Next]_vars

\* One request and the steps of its call, in every configuration of the
\* service.
OneCallNext ==
    \/ Request(1)
    \/ MoralResponse(1)
    \/ ToneResponse(1)

OneCallSpec == Init /\ [][OneCallNext]_vars

\* The service constructed in demo mode: no call of it suspends, so the
\* requests are served one after the other.
DemoInit == Init /\ demo_mode

DemoNext == \E c \in Calls : Request(c)

DemoSpec == DemoInit /\ [][DemoNext]_vars

\* The service constructed in live mode on a host without the transformers
\* package: the calls suspend at the generation capability and interleave
\* there; the sentiment stage, which shares nothing between calls and does
\* not suspend, takes its fallback.
LiveInit == Init /\ ~demo_mode /\ ~transformers_ok

LiveSpec == LiveInit /\ [][Next]_vars

FairNext ==
    \E c \in Calls :
        \/ Request(c)
        \/ MoralResponse(c)
        \/ ToneResponse(c)
        \/ Stall(c)

\* The event loop runs every call that can run; a call whose capability
\* answers resumes.
FairSpec ==
    /\ LiveInit
    /\ [][FairNext]_vars
    /\ \A c \in Calls :
         /\ WF_vars(Request(c))
         /\ WF_vars(MoralResponse(c))
         /\ WF_vars(ToneResponse(c))

----------------------------------------------------------------------------
(* The pure functions applied to generated texts *)

FnSentiment ==
    /\ fnOp = "input"
    /\ fnOp' = "sentiment"
    /\ fnOut' = simple_sentiment_analysis(fnText)
    /\ UNCHANGED << fnText, fnArg, serviceVars >>

FnKeywords ==
    /\ fnOp = "input"
    /\ fnOp' = "keywords"
    /\ \E listed \in SetOrders(FallbackCandidates(fnText)) :
         fnOut' = FallbackKeywords(listed)
    /\ UNCHANGED << fnText, fnArg, serviceVars >>

FnTone ==
    /\ fnOp = "input"
    /\ fnOp' = "tone"
    /\ \E target_tone \in ToneType \cup { UnknownTone } :
         /\ fnArg' = target_tone
         /\ fnOut' = demo_tone_transformation(fnText, target_tone)
    /\ UNCHANGED << fnText, serviceVars >>

FnMoral ==
    /\ fnOp = "input"
    /\ fnOp' = "moral"
    /\ \E theme \in AllThemes(fnText) :
         fnOut' = demo_moral_extraction(fnText, theme)
    /\ UNCHANGED << fnText, fnArg, serviceVars >>

FnInit ==
    /\ demo_mode = TRUE
    /\ rake = init_rake(FALSE)
    /\ transformers_ok = FALSE
    /\ setOrder = << >>
    /\ calls = [ c \in Calls |-> IdleCall ]
    /\ fnText \in FnTexts
    /\ fnOp = "input"
    /\ fnArg = None
    /\ fnOut = None

FnNext == FnSentiment \/ FnKeywords \/ FnTone \/ FnMoral

FnSpec == FnInit /\ [][FnNext]_vars

----------------------------------------------------------------------------
(* Properties *)

\* the call has returned its result
Returned(c) == calls[c].pc = "done"

\* the call was accepted and the pipeline ran its first stages
Accepted(c) == calls[c].pc \in { "await_moral", "await_tone", "done" }

Stages == { "keywords", "sentiment", "moral", "tone" }

\* C1: every result analyze_text returns for a valid text, in demo and in
\* live mode and whatever the capabilities answered, has a non-empty moral
\* and at least one keyword.
C1_MoralAndKeywordsNonEmpty ==
    \A c \in Calls :
        Returned(c) =>
            /\ calls[c].moral # << >>
            /\ Len(calls[c].keywords) >= 1

\* the keyword lists and the morals the fallbacks may give for a text
FallbackKeywordLists ==
    [ t \in ValidTexts |->
        { FallbackKeywords(listed) : listed \in SetOrders(FallbackCandidatesOf[t]) } ]

FallbackMorals ==
    [ t \in ValidTexts |-> { FallbackMoral[t][theme] : theme \in AllThemes(t) } ]

\* C2: no capability failure makes analyze_text raise; the stage that failed
\* holds its deterministic fallback's value, and the returned result is
\* complete (moral, keywords, original_tone, confidence, and transformed_text
\* if a target tone was given).
C2_FailuresRecovered ==
    \A c \in Calls :
        LET call == calls[c]
        IN  /\ call.pc # "error"
            /\ (Accepted(c) /\ "keywords" \in call.fallbacks) =>
                  call.keywords \in FallbackKeywordLists[call.text]
            /\ (Accepted(c) /\ "sentiment" \in call.fallbacks) =>
                  [ label |-> call.original_tone, score |-> call.confidence ]
                      = FallbackSentiment[call.text]
            /\ (Returned(c) /\ "moral" \in call.fallbacks) =>
                  call.moral \in FallbackMorals[call.text]
            /\ (Returned(c) /\ "tone" \in call.fallbacks) =>
                  call.transformed_text
                      = FallbackTone[call.text][call.target_tone]
            /\ Returned(c) =>
                  /\ call.moral # None
                  /\ call.keywords # << >>
                  /\ call.original_tone \in { L_positive, L_negative, L_neutral }
                  /\ call.confidence \in 0..100
                  /\ (call.target_tone # None) = (call.transformed_text # None)

\* A live-mode call with a target tone has returned after all four of its
\* capability calls failed.
C2_Witness ==
    \E c \in Calls :
        /\ Returned(c)
        /\ ~demo_mode
        /\ calls[c].invoked = Stages
        /\ calls[c].fallbacks = Stages

\* C3 as stated: in demo mode every stage of a call uses its fallback and no
\* capability is invoked; the example text without target tone yields
\* original_tone "positive", confidence 0.8 and no transformed text.
C3_DemoModeInvokesNothing ==
    \A c \in Calls :
        (demo_mode /\ Returned(c)) =>
            /\ calls[c].invoked = {}
            /\ { "keywords", "sentiment", "moral" } \subseteq calls[c].fallbacks
            /\ (calls[c].text = ExampleText /\ calls[c].target_tone = None) =>
                  /\ calls[c].original_tone = L_positive
                  /\ calls[c].confidence = FallbackConfidence
                  /\ calls[c].transformed_text = None

\* C3, amended: in demo mode the moral and tone stages use their fallbacks
\* and the generation capability is not invoked; the example text without
\* target tone yields no transformed text and, when its sentiment stage falls
\* back, original_tone "positive" with confidence 0.8.
C3_DemoModeGatesGeneration ==
    \A c \in Calls :
        (demo_mode /\ Returned(c)) =>
            /\ calls[c].invoked \cap { "moral", "tone" } = {}
            /\ "moral" \in calls[c].fallbacks
            /\ calls[c].target_tone # None => "tone" \in calls[c].fallbacks
            /\ (calls[c].text = ExampleText /\ calls[c].target_tone = None) =>
                  /\ calls[c].transformed_text = None
                  /\ "sentiment" \in calls[c].fallbacks =>
                        /\ calls[c].original_tone = L_positive
                        /\ calls[c].confidence = FallbackConfidence

\* In demo mode the example text was analysed without target tone: the
\* keyword extractor was invoked, the sentiment stage fell back.
C3_Witness ==
    \E c \in Calls :
        /\ demo_mode
        /\ Returned(c)
        /\ calls[c].text = ExampleText
        /\ calls[c].target_tone = None
        /\ "keywords" \in calls[c].invoked
        /\ "sentiment" \in calls[c].fallbacks
        /\ calls[c].original_tone = L_positive

SameInput(c, d) ==
    /\ calls[c].text = calls[d].text
    /\ calls[c].target_tone = calls[d].target_tone

SameAnalysis(c, d) ==
    /\ calls[c].keywords = calls[d].keywords
    /\ calls[c].original_tone = calls[d].original_tone
    /\ calls[c].confidence = calls[d].confidence

ExampleKeywordsInOrder == FirstSeen(FallbackCandidates(ExampleText))

C9_DemoModeFixed ==
    [][ /\ demo_mode' = demo_mode
        /\ \A c \in Calls :
             (~demo_mode /\ calls[c].pc = "idle" /\ Accepted(c)') =>
                 /\ calls'[c].pc = "await_moral"
                 /\ "moral" \in calls'[c].invoked ]_vars

\* In live mode a call has returned the fallback moral after the capability
\* failed, and the next call awaits the capability.
C9_Witness ==
    \E c, d \in Calls :
        /\ c < d
        /\ ~demo_mode
        /\ Returned(c)
        /\ { "moral", "tone" } \subseteq calls[c].fallbacks
        /\ calls[d].pc = "await_moral"

\* the keywords the extractor ranks from each text (lines 81-82)
RankedFrom ==
    [ text \in ValidTexts |->
        IF RakeRanked(text) = << >> THEN RakePlaceholder
        ELSE Prefix(RakeRanked(text), MaxKeywords) ]

\* C10: however the calls interleave at their awaits, the keywords a call got
\* from the shared extractor are the ones ranked from its own text.
C10_KeywordsFromOwnText ==
    \A c \in Calls :
        (Accepted(c) /\ "keywords" \notin calls[c].fallbacks) =>
            calls[c].keywords = RankedFrom[calls[c].text]

\* Two calls with different texts are suspended at the same time, both with
\* keywords from the shared extractor, which holds the later call's text.
C10_Witness ==
    \E c, d \in Calls :
        /\ c < d
        /\ calls[c].pc \in { "await_moral", "await_tone" }
        /\ calls[d].pc \in { "await_moral", "await_tone" }
        /\ calls[c].text # calls[d].text
        /\ "keywords" \notin calls[c].fallbacks
        /\ "keywords" \notin calls[d].fallbacks
        /\ rake.of # calls[c].text

\* C8: every call that awaits a capability eventually returns.
C8_EveryCallReturns ==
    \A c \in Calls :
        (calls[c].pc \in { "await_moral", "await_tone" }) ~> Returned(c)

\* word occurs in text at position i, letter case ignored
MatchesAt(text, word, i) ==
    /\ i + Len(word) - 1 <= Len(text)
    /\ \A k \in 1..Len(word) : lower(<< text[i + k - 1] >>)[1] = word[k]

\* the number of places of text at which a word of the lexicon occurs
Occurrences(text, lexicon) ==
    Cardinality({ at \in lexicon \X (1..Len(text)) : MatchesAt(text, at[1], at[2]) })

\* the number of words of the lexicon that occur in text
WordsPresent(text, lexicon) ==
    Cardinality({ word \in lexicon : \E i \in 1..Len(text) : MatchesAt(text, word, i) })

Verdict(positive, negative) ==
    IF positive > negative THEN [ label |-> L_positive, score |-> 80 ]
    ELSE IF negative > positive THEN [ label |-> L_negative, score |-> 80 ]
    ELSE [ label |-> L_neutral, score |-> 50 ]

\* C5 as stated: the fallback classifier compares the numbers of occurrences
\* of positive-lexicon and of negative-lexicon words in the text: positive
\* with 0.8 or negative with 0.8 for the strictly greater count, neutral with
\* 0.5 for equal counts.
C5_ByOccurrences ==
    fnOp = "sentiment" =>
        fnOut = Verdict(Occurrences(fnText, positive_words),
                        Occurrences(fnText, negative_words))

\* C5, amended: the fallback classifier compares the numbers of distinct
\* positive-lexicon and negative-lexicon words that occur in the text at
\* least once (case-insensitive substring match): positive with 0.8 or
\* negative with 0.8 for the strictly greater count, neutral with 0.5 for
\* equal counts.
C5_ByWordsPresent ==
    fnOp = "sentiment" =>
        fnOut = Verdict(WordsPresent(fnText, positive_words),
                        WordsPresent(fnText, negative_words))

\* A text in which a positive word occurs twice and a negative word once was
\* classified neutral.
C5_Witness ==
    /\ fnOp = "sentiment"
    /\ Occurrences(fnText, positive_words) = 2
    /\ Occurrences(fnText, negative_words) = 1
    /\ WordsPresent(fnText, positive_words) = 1
    /\ fnOut = [ label |-> L_neutral, score |-> 50 ]

\* the content of the bracketed tag a string begins with, None without one
TagOf(out) ==
    IF Len(out) >= 2 /\ out[1] = "[" /\ \E j \in 2..Len(out) : out[j] = "]"
    THEN SubSeq(out, 2,
                (CHOOSE j \in 2..Len(out) :
                    out[j] = "]" /\ \A k \in 2..(j - 1) : out[k] # "]") - 1)
    ELSE None

TagCasual == <<"C", "a", "s", "u", "a", "l", " ", "V", "e", "r", "s", "i", "o", "n">>
TagRelaxed == <<"R", "e", "l", "a", "x", "e", "d", " ", "V", "e", "r", "s", "i", "o", "n">>
TagRewritten == <<"R", "e", "w", "r", "i", "t", "t", "e", "n">>

\* the tones whose tag holds their name
NamedTones ==
    { T_formal, T_friendly, T_professional, T_complaint, T_persuasive,
      T_academic }

\* C6 as stated: for every text and target tone the tone fallback's output
\* begins with a bracketed tag whose content contains the target tone's
\* name, in any letter case.
C6_TagNamesTone ==
    fnOp = "tone" =>
        /\ TagOf(fnOut) # None
        /\ Contains(lower(TagOf(fnOut)), lower(fnArg))

\* C6, amended: for every text and target tone the tone fallback's output
\* begins with a bracketed tag; its content contains the target tone's name
\* (in any letter case) for formal, friendly, professional, complaint,
\* persuasive and academic, and is "Casual Version" for informal, "Relaxed
\* Version" for casual and "Rewritten" for an unrecognized tone.
C6_TagFromTable ==
    fnOp = "tone" =>
        /\ TagOf(fnOut) # None
        /\ fnArg \in NamedTones => Contains(lower(TagOf(fnOut)), lower(fnArg))
        /\ fnArg = T_informal => TagOf(fnOut) = TagCasual
        /\ fnArg = T_casual => TagOf(fnOut) = TagRelaxed
        /\ fnArg \notin ToneType => TagOf(fnOut) = TagRewritten

\* A text longer than the threshold was given the complaint tone: the tag
\* names the tone and the text was shortened.
C6_Witness ==
    /\ fnOp = "tone"
    /\ fnArg = T_complaint
    /\ Len(fnText) > ShortenThreshold
    /\ Contains(lower(TagOf(fnOut)), T_complaint)
    /\ Len(fnOut) < Len(fnText)

\* C7: the fallback extractor returns the first up to 10 of the text's
\* lowercased tokens that are no stop-word and have at least 4 characters,
\* without duplicates, in the order of their first occurrence; the
\* placeholder list only when there is none.
C7_FirstSeenOrder ==
    fnOp = "keywords" =>
        fnOut = IF FallbackCandidates(fnText) = << >> THEN KeywordPlaceholder
                ELSE Prefix(FirstSeen(FallbackCandidates(fnText)), 10)

============================================================================
